---- MODULE Spec2Model ----
(***************************************************************************)
(* Model of bot.py: a Telegram bot that gates a private group behind one   *)
(* email submission per user.  The state is the Google Sheet (a sequence   *)
(* of rows), the ConversationHandler state of every (user, chat) key, the  *)
(* handler coroutines in flight, the invite links Telegram has issued and  *)
(* the replies that were delivered.                                        *)
(*                                                                         *)
(* A handler coroutine runs atomically between two awaits (the gspread     *)
(* calls are synchronous); it can be suspended at                          *)
(* `await create_chat_invite_link` and at `await reply_text`.  Spec lets   *)
(* the dispatcher start another update's handler while one is suspended;   *)
(* SeqSpec handles every update to completion before the next one.         *)
(***************************************************************************)
EXTENDS Integers, Sequences, FiniteSets, Bags, TLC

(* ------------------------------ bounds --------------------------------- *)

\* number of handle_email coroutines that can be in flight together
MaxTasks == 2
\* number of updates the dispatcher delivers in one behaviour
MaxUpdates == 4

(* ----------------------------- constants ------------------------------- *)

ASK_EMAIL == 1

\* ConversationHandler.END: the conversation's key is dropped, which is also
\* the state of a key no conversation was started for
END == -1

\* the label of the column user_already_submitted looks for
ID_LABEL == "telegram_user_id"

\* the replies of the handlers, by kind; arg is the part that varies
NoReply == [kind |-> "none", arg |-> ""]
Reply(kind, arg) == [kind |-> kind, arg |-> arg]

\* the exceptions create_chat_invite_link raises: type(e).__name__
ErrKinds == { "Forbidden", "BadRequest" }

\* where the gspread calls before the invite can raise: "open" in get_ws
\* (before anything is written), "read" in user_already_submitted
OpenFaults == { "none", "open", "read" }

HEADER ==
    << "timestamp_utc", "telegram_user_id", "telegram_username",
       "telegram_full_name", "patreon_email", "invite_link_created" >>

(* ------------------------------- users --------------------------------- *)

\* update.effective_user of the updates: id, username, first and last name
\* ("" stands for None)
TgUsers ==
    { [id |-> 7,  username |-> "ann", first_name |-> "Ann", last_name |-> "Lee"],
      [id |-> 42, username |-> "",    first_name |-> "Bob", last_name |-> ""] }

UserIds == { u.id : u \in TgUsers }

UserOf(uid) == CHOOSE u \in TgUsers : u.id = uid

\* update.effective_chat.type
ChatTypes == { "private", "group" }

\* the key under which ConversationHandler keeps a conversation
ConvKeys == UserIds \X ChatTypes

(* ------------------------------ strings -------------------------------- *)

Digit(d) ==
    CASE d = 0 -> "0" [] d = 1 -> "1" [] d = 2 -> "2" [] d = 3 -> "3"
      [] d = 4 -> "4" [] d = 5 -> "5" [] d = 6 -> "6" [] d = 7 -> "7"
      [] d = 8 -> "8" [] d = 9 -> "9"

\* str(n) of a non-negative int
RECURSIVE Str(_)
Str(n) == IF n < 10 THEN Digit(n) ELSE Str(n \div 10) \o Digit(n % 10)

\* a message text is a sequence of characters; Join gives the string
RECURSIVE Join(_)
Join(cs) == IF cs = << >> THEN "" ELSE Head(cs) \o Join(Tail(cs))

Letters == { "a", "b", "c", "e", "i", "m", "n", "o", "t", "x", "A", "B" }
Digits == { "0", "1", "2", "3", "4", "5", "6", "7", "8", "9" }
Whitespace == { " ", "\n" }

\* [A-Z0-9._%+-] with re.IGNORECASE
LocalChars == Letters \cup Digits \cup { ".", "_", "%", "+", "-" }
\* [A-Z0-9.-] with re.IGNORECASE
DomainChars == Letters \cup Digits \cup { ".", "-" }

\* str.strip()
RECURSIVE LStrip(_)
LStrip(cs) ==
    IF cs # << >> /\ Head(cs) \in Whitespace THEN LStrip(Tail(cs)) ELSE cs

RECURSIVE RStrip(_)
RStrip(cs) ==
    IF cs # << >> /\ cs[Len(cs)] \in Whitespace
    THEN RStrip(SubSeq(cs, 1, Len(cs) - 1))
    ELSE cs

Strip(cs) == RStrip(LStrip(cs))

AllIn(cs, S) == \A i \in 1..Len(cs) : cs[i] \in S

\* EMAIL_RE.match(cs): ^[A-Z0-9._%+-]+@[A-Z0-9.-]+\.[A-Z]{2,}$
\* p is the position of the "@", q of the "." before the final label; the
\* "$" also matches before one trailing newline
EmailMatchBody(cs) ==
    \E p \in 1..Len(cs) : \E q \in 1..Len(cs) :
        /\ cs[p] = "@"
        /\ cs[q] = "."
        /\ p + 1 < q
        /\ p > 1
        /\ AllIn(SubSeq(cs, 1, p - 1), LocalChars)
        /\ AllIn(SubSeq(cs, p + 1, q - 1), DomainChars)
        /\ Len(cs) - q >= 2
        /\ AllIn(SubSeq(cs, q + 1, Len(cs)), Letters)

EMAIL_RE_match(cs) ==
    \/ EmailMatchBody(cs)
    \/ /\ cs # << >>
       /\ cs[Len(cs)] = "\n"
       /\ EmailMatchBody(SubSeq(cs, 1, Len(cs) - 1))

(* ------------------------------ the sheet ------------------------------ *)

\* a sheet is the sequence of its rows, a row the sequence of its cells;
\* gspread drops the empty cells at the end of a row or a column
RECURSIVE TrimTrailing(_)
TrimTrailing(cells) ==
    IF cells # << >> /\ cells[Len(cells)] = ""
    THEN TrimTrailing(SubSeq(cells, 1, Len(cells) - 1))
    ELSE cells

Cell(row, c) == IF c <= Len(row) THEN row[c] ELSE ""

\* ws.row_values(r)
row_values(tbl, r) == IF r <= Len(tbl) THEN TrimTrailing(tbl[r]) ELSE << >>

\* ws.col_values(c)
col_values(tbl, c) == TrimTrailing([i \in 1..Len(tbl) |-> Cell(tbl[i], c)])

\* faulty variant: the row is inserted above the rows of the sheet
append_row_at_top(tbl, row) == << row >> \o tbl

\* ws.append_row(row)
append_row(tbl, row) == Append(tbl, row)

\* list.index(x) + 1, or 0 where Python raises ValueError
IndexOf(cells, x) ==
    IF \E i \in 1..Len(cells) : cells[i] = x
    THEN CHOOSE i \in 1..Len(cells) :
             cells[i] = x /\ \A j \in 1..(i - 1) : cells[j] # x
    ELSE 0

\* the sheet as get_ws leaves it: the header is written when row 1 is empty
get_ws(tbl) ==
    IF row_values(tbl, 1) = << >> THEN append_row(tbl, HEADER) ELSE tbl

\* the column the dedup check reads
DedupColumn(tbl) ==
    LET headers == row_values(tbl, 1)
    IN  IF IndexOf(headers, ID_LABEL) # 0 THEN IndexOf(headers, ID_LABEL) ELSE 2

\* faulty variant: any id in the column counts as the user's
user_already_submitted_any_id(tbl, telegram_user_id) ==
    LET col == col_values(tbl, DedupColumn(tbl))
    IN  \E i \in 2..Len(col) : col[i] # ""

user_already_submitted(tbl, telegram_user_id) ==
    LET col == col_values(tbl, DedupColumn(tbl))
    IN  Str(telegram_user_id) \in { col[i] : i \in 2..Len(col) }

\* datetime.now(timezone.utc).isoformat(timespec="seconds"): the clock is
\* not part of the state, every row carries the same instant
NowIso == "2024-01-01T00:00:00+00:00"

full_name(user) ==
    IF user.first_name # "" /\ user.last_name # ""
    THEN user.first_name \o " " \o user.last_name
    ELSE IF user.first_name # "" THEN user.first_name
    ELSE user.last_name

\* faulty variant: the email and the link are written in each other's column
SubmissionRow_link_email_swapped(user, email, invite_link) ==
    << NowIso, Str(user.id), user.username, full_name(user), invite_link, email >>

\* faulty variant: the id and the username are written in each other's column
SubmissionRow_id_username_swapped(user, email, invite_link) ==
    << NowIso, user.username, Str(user.id), full_name(user), email, invite_link >>

SubmissionRow(user, email, invite_link) ==
    << NowIso, Str(user.id), user.username, full_name(user), email, invite_link >>

append_submission(tbl, user, email, invite_link) ==
    append_row(tbl, SubmissionRow(user, email, invite_link))

\* the data rows: every row but the first
DataRows(tbl) == 2..Len(tbl)

(* ------------------------------ the state ------------------------------ *)

VARIABLES
    table,      \* the rows of sheet1
    conv,       \* ConversationHandler: the state of every conversation key
    running,    \* the bag of the handle_email coroutines in flight
    done,       \* the handle_email coroutine that finished last
    issued,     \* the invite links Telegram has created: [uid, link]
    last,       \* the last reply delivered in every chat
    links,      \* the link replies delivered: [uid, link]
    nupd        \* the number of updates dispatched so far

vars == << table, conv, running, done, issued, last, links, nupd >>

\* the message texts the users send (filters.TEXT & ~filters.COMMAND)
Texts ==
    { << "a", "@", "b", ".", "i", "o" >>,
      << " ", "a", "@", "b", ".", "i", "o", "\n" >>,
      << "n", "o", "t" >>,
      << "a", "@", "b" >>,
      << "a", "@", "b", ".", "c" >>,
      << "a", "@", ".", "i", "o" >>,
      << "@", "b", ".", "i", "o" >>,
      << "a", " ", "@", "b", ".", "i", "o" >>,
      << "a", "@", "b", ".", "i", "0" >> }

\* what handle_email makes of every text: email is text.strip() and ok
\* whether EMAIL_RE matches it
Stripped ==
    [text \in Texts |->
        [email |-> Join(Strip(text)), ok |-> EMAIL_RE_match(Strip(text))]]

\* a handle_email coroutine: pc is where it stands,
\*   "idle"          no coroutine (the value of done before the first one)
\*   "await_invite"  suspended in create_chat_invite_link
\*   "await_reply"   suspended in the reply_text before its return
\*   "returned"      the handler returned ret
\*   "raised"        an exception left the handler
\* reqs and rows count the invite requests and the data rows of the
\* attempt, before is the sheet as the attempt found it
IdleTask ==
    [ pc |-> "idle", key |-> << 0, "private" >>, email |-> "", link |-> "",
      reqs |-> 0, rows |-> 0, reply |-> NoReply, ret |-> END,
      before |-> << >> ]

InFlight(co) == co.pc \in { "await_invite", "await_reply" }

\* the coroutines in flight
Running == BagToSet(running)

\* no handler is suspended
Quiet == running = EmptyBag

\* the bag of coroutines and the last finished one once old, a coroutine in
\* flight or none (IdleTask), has moved on to new
Moved(old, new) ==
    LET rest == IF old = IdleTask THEN running ELSE running (-) SetToBag({ old })
    IN  IF InFlight(new)
        THEN [running |-> rest (+) SetToBag({ new }), done |-> done]
        ELSE [running |-> rest, done |-> new]

Init ==
    /\ table = << >>
    /\ conv = [k \in ConvKeys |-> END]
    /\ running = EmptyBag
    /\ done = IdleTask
    /\ issued = {}
    /\ last = [k \in ConvKeys |-> NoReply]
    /\ links = {}
    /\ nupd = 0

\* reply_text(reply) in the chat of k: the replies as they are afterwards
Delivered(k, reply) == [last EXCEPT ![k] = reply]

\* the link replies once reply was delivered to the user of k
LinksWith(k, reply) ==
    IF reply.kind = "link"
    THEN links \cup { [uid |-> k[1], link |-> reply.arg] }
    ELSE links

(* ---------------------------- the dispatcher --------------------------- *)

\* the kinds of update: the commands /start and /cancel, and a text message
UpdateKinds == { "start", "cancel", "text" }

\* the handler ConversationHandler picks for an update in a conversation
\* state: the entry points without a conversation, the state's handlers
\* and the fallbacks within one
\* faulty variant: the text handler is registered outside the conversation
Handler_text_anywhere(state, kind) ==
    IF kind = "text" THEN "handle_email"
    ELSE IF state = ASK_EMAIL
    THEN IF kind = "cancel" THEN "cancel" ELSE "none"
    ELSE IF kind = "start" THEN "start" ELSE "none"

Handler(state, kind) ==
    IF state = ASK_EMAIL
    THEN IF kind = "text" THEN "handle_email"
         ELSE IF kind = "cancel" THEN "cancel"
         ELSE "none"
    ELSE IF kind = "start" THEN "start" ELSE "none"

(* ------------------------------- start --------------------------------- *)

\* faulty variant: the chat type is not looked at
start_result_any_chat(chat) ==
    [reply |-> Reply("prompt", ""), ret |-> ASK_EMAIL]

start_result(chat) ==
    IF chat # "private"
    THEN [reply |-> Reply("redirect", ""), ret |-> END]
    ELSE [reply |-> Reply("prompt", ""), ret |-> ASK_EMAIL]

start(k) ==
    /\ nupd < MaxUpdates
    /\ Handler(conv[k], "start") = "start"
    /\ last' = Delivered(k, start_result(k[2]).reply)
    /\ conv' = [conv EXCEPT ![k] = start_result(k[2]).ret]
    /\ nupd' = nupd + 1
    /\ UNCHANGED << table, running, done, issued, links >>

(* ------------------------------- cancel -------------------------------- *)

\* faulty variant: the confirmation is sent but the conversation is kept
cancel_result_keeps_state == [reply |-> Reply("cancelled", ""), ret |-> ASK_EMAIL]

cancel_result == [reply |-> Reply("cancelled", ""), ret |-> END]

\* faulty variant: the handlers of the conversation still in flight are
\* dropped
cancel_aborting(k) ==
    /\ nupd < MaxUpdates
    /\ Handler(conv[k], "cancel") = "cancel"
    /\ last' = Delivered(k, cancel_result.reply)
    /\ conv' = [conv EXCEPT ![k] = cancel_result.ret]
    /\ running' = [co \in { c \in DOMAIN running : c.key # k } |-> running[co]]
    /\ nupd' = nupd + 1
    /\ UNCHANGED << table, done, issued, links >>

cancel(k) ==
    /\ nupd < MaxUpdates
    /\ Handler(conv[k], "cancel") = "cancel"
    /\ last' = Delivered(k, cancel_result.reply)
    /\ conv' = [conv EXCEPT ![k] = cancel_result.ret]
    /\ nupd' = nupd + 1
    /\ UNCHANGED << table, running, done, issued, links >>

(* ---------------------------- handle_email ----------------------------- *)

\* faulty variant: the sheet is opened before the email is validated
handle_email_begin_open_first(tbl, k, text, fault) ==
    LET ws == get_ws(tbl)
        co == [IdleTask EXCEPT !.key = k, !.before = tbl]
        valid == [co EXCEPT !.email = Stripped[text].email]
    IN  IF k[2] # "private"
        THEN [tbl |-> tbl, task |-> [co EXCEPT !.pc = "returned", !.ret = END]]
        ELSE IF fault = "open"
        THEN [tbl |-> tbl, task |-> [valid EXCEPT !.pc = "raised"]]
        ELSE IF ~Stripped[text].ok
        THEN [tbl |-> ws,
              task |-> [co EXCEPT !.pc = "await_reply",
                                  !.reply = Reply("invalid", ""),
                                  !.ret = ASK_EMAIL]]
        ELSE IF fault = "read"
        THEN [tbl |-> ws, task |-> [valid EXCEPT !.pc = "raised"]]
        ELSE IF user_already_submitted(ws, k[1])
        THEN [tbl |-> ws,
              task |-> [valid EXCEPT !.pc = "await_reply",
                                     !.reply = Reply("rejected", ""),
                                     !.ret = END]]
        ELSE [tbl |-> ws,
              task |-> [valid EXCEPT !.pc = "await_invite", !.reqs = 1]]

\* handle_email up to its first await: the sheet it leaves and the
\* coroutine's state
handle_email_begin(tbl, k, text, fault) ==
    LET ws == get_ws(tbl)
        co == [IdleTask EXCEPT !.key = k, !.before = tbl]
        valid == [co EXCEPT !.email = Stripped[text].email]
    IN  IF k[2] # "private"
        THEN [tbl |-> tbl, task |-> [co EXCEPT !.pc = "returned", !.ret = END]]
        ELSE IF ~Stripped[text].ok
        THEN [tbl |-> tbl,
              task |-> [co EXCEPT !.pc = "await_reply",
                                  !.reply = Reply("invalid", ""),
                                  !.ret = ASK_EMAIL]]
        ELSE IF fault = "open"
        THEN [tbl |-> tbl, task |-> [valid EXCEPT !.pc = "raised"]]
        ELSE IF fault = "read"
        THEN [tbl |-> ws, task |-> [valid EXCEPT !.pc = "raised"]]
        ELSE IF user_already_submitted(ws, k[1])
        THEN [tbl |-> ws,
              task |-> [valid EXCEPT !.pc = "await_reply",
                                     !.reply = Reply("rejected", ""),
                                     !.ret = END]]
        ELSE [tbl |-> ws,
              task |-> [valid EXCEPT !.pc = "await_invite", !.reqs = 1]]

HandleEmailBegin(k, text, fault) ==
    /\ nupd < MaxUpdates
    /\ Handler(conv[k], "text") = "handle_email"
    /\ BagCardinality(running) < MaxTasks
    /\ LET r == handle_email_begin(table, k, text, fault)
       IN  /\ table' = r.tbl
           /\ running' = Moved(IdleTask, r.task).running
           /\ done' = Moved(IdleTask, r.task).done
           /\ conv' = IF r.task.pc = "returned"
                      THEN [conv EXCEPT ![k] = r.task.ret]
                      ELSE conv
    /\ nupd' = nupd + 1
    /\ UNCHANGED << issued, last, links >>

\* invite.invite_link of the next invite Telegram creates
NewLink == "https://t.me/+" \o Str(Cardinality(issued) + 1)

\* faulty variant: the dedup check is repeated under a lock before the append
handle_email_invited_recheck(tbl, co, outcome, append_fails, invite_link) ==
    IF outcome # "ok"
    THEN [tbl |-> tbl,
          task |-> [co EXCEPT !.pc = "await_reply",
                              !.reply = Reply("diag", outcome),
                              !.ret = END]]
    ELSE IF user_already_submitted(tbl, co.key[1])
    THEN [tbl |-> tbl,
          task |-> [co EXCEPT !.pc = "await_reply",
                              !.link = invite_link,
                              !.reply = Reply("rejected", ""),
                              !.ret = END]]
    ELSE IF append_fails
    THEN [tbl |-> tbl, task |-> [co EXCEPT !.pc = "raised", !.link = invite_link]]
    ELSE [tbl |-> append_submission(tbl, UserOf(co.key[1]), co.email, invite_link),
          task |-> [co EXCEPT !.pc = "await_reply",
                              !.link = invite_link,
                              !.rows = 1,
                              !.reply = Reply("link", invite_link),
                              !.ret = END]]

\* faulty variant: the row is appended before the outcome of the invite is
\* looked at, with an empty link when the invite failed
handle_email_invited_append_first(tbl, co, outcome, append_fails, invite_link) ==
    IF append_fails
    THEN [tbl |-> tbl,
          task |-> [co EXCEPT !.pc = "raised",
                              !.link = IF outcome = "ok" THEN invite_link ELSE ""]]
    ELSE IF outcome # "ok"
    THEN [tbl |-> append_submission(tbl, UserOf(co.key[1]), co.email, ""),
          task |-> [co EXCEPT !.pc = "await_reply",
                              !.reply = Reply("diag", outcome),
                              !.ret = END]]
    ELSE [tbl |-> append_submission(tbl, UserOf(co.key[1]), co.email, invite_link),
          task |-> [co EXCEPT !.pc = "await_reply",
                              !.link = invite_link,
                              !.rows = 1,
                              !.reply = Reply("link", invite_link),
                              !.ret = END]]

\* faulty variant: an exception of the append is swallowed and the link is
\* replied all the same
handle_email_invited_swallow(tbl, co, outcome, append_fails, invite_link) ==
    IF outcome # "ok"
    THEN [tbl |-> tbl,
          task |-> [co EXCEPT !.pc = "await_reply",
                              !.reply = Reply("diag", outcome),
                              !.ret = END]]
    ELSE IF append_fails
    THEN [tbl |-> tbl,
          task |-> [co EXCEPT !.pc = "await_reply",
                              !.link = invite_link,
                              !.reply = Reply("link", invite_link),
                              !.ret = END]]
    ELSE [tbl |-> append_submission(tbl, UserOf(co.key[1]), co.email, invite_link),
          task |-> [co EXCEPT !.pc = "await_reply",
                              !.link = invite_link,
                              !.rows = 1,
                              !.reply = Reply("link", invite_link),
                              !.ret = END]]

\* handle_email from the return of create_chat_invite_link to its next
\* await: outcome is "ok" or the exception raised, append_fails whether
\* ws.append_row raises
handle_email_invited(tbl, co, outcome, append_fails, invite_link) ==
    IF outcome # "ok"
    THEN [tbl |-> tbl,
          task |-> [co EXCEPT !.pc = "await_reply",
                              !.reply = Reply("diag", outcome),
                              !.ret = END]]
    ELSE IF append_fails
    THEN [tbl |-> tbl, task |-> [co EXCEPT !.pc = "raised", !.link = invite_link]]
    ELSE [tbl |-> append_submission(tbl, UserOf(co.key[1]), co.email, invite_link),
          task |-> [co EXCEPT !.pc = "await_reply",
                              !.link = invite_link,
                              !.rows = 1,
                              !.reply = Reply("link", invite_link),
                              !.ret = END]]

HandleEmailInvited(co, outcome, append_fails) ==
    /\ co \in Running
    /\ co.pc = "await_invite"
    /\ LET r == handle_email_invited(table, co, outcome, append_fails, NewLink)
       IN  /\ table' = r.tbl
           /\ running' = Moved(co, r.task).running
           /\ done' = Moved(co, r.task).done
    /\ issued' = IF outcome = "ok"
                 THEN issued \cup { [uid |-> co.key[1], link |-> NewLink] }
                 ELSE issued
    /\ UNCHANGED << conv, last, links, nupd >>

\* the reply_text a handler awaits last completes and the handler returns
HandleEmailReturn(co) ==
    /\ co \in Running
    /\ co.pc = "await_reply"
    /\ last' = Delivered(co.key, co.reply)
    /\ links' = LinksWith(co.key, co.reply)
    /\ conv' = [conv EXCEPT ![co.key] = co.ret]
    /\ running' = Moved(co, [co EXCEPT !.pc = "returned"]).running
    /\ done' = Moved(co, [co EXCEPT !.pc = "returned"]).done
    /\ UNCHANGED << table, issued, nupd >>

(* --------------------------- no handler matches ------------------------ *)

Unhandled(k, kind) ==
    /\ nupd < MaxUpdates
    /\ Handler(conv[k], kind) = "none"
    /\ nupd' = nupd + 1
    /\ UNCHANGED << table, conv, running, done, issued, last, links >>

(* --------------------------- specifications ---------------------------- *)

Dispatch ==
    \/ \E k \in ConvKeys : start(k)
    \/ \E k \in ConvKeys : cancel(k)
    \/ \E k \in ConvKeys : \E text \in Texts : \E fault \in OpenFaults :
           HandleEmailBegin(k, text, fault)
    \/ \E k \in ConvKeys : \E kind \in UpdateKinds : Unhandled(k, kind)

Resume ==
    \/ \E co \in Running : \E outcome \in { "ok" } \cup ErrKinds :
           \E append_fails \in BOOLEAN :
               HandleEmailInvited(co, outcome, append_fails)
    \/ \E co \in Running : HandleEmailReturn(co)

\* updates are handled concurrently: a handler can start while others
\* are suspended
Next == Dispatch \/ Resume

Spec == Init /\ [][Next]_vars

\* updates are handled one after the other
SeqNext == (Quiet /\ Dispatch) \/ Resume

SeqSpec == Init /\ [][SeqNext]_vars

\* a first row that does not hold the label of the id column
OtherHeader == << "time", "id", "user", "name", "email", "link" >>

\* a first row that holds the label of the id column in column 1
MovedHeader ==
    << "telegram_user_id", "timestamp_utc", "telegram_username",
       "telegram_full_name", "patreon_email", "invite_link_created" >>

\* sheet1 of the spreadsheet SHEET_ID names, as the bot can find it: empty,
\* with the header, with another first row, or with an empty first row
\* above the header
Sheets ==
    { << >>,
      << HEADER >>,
      << OtherHeader >>,
      << MovedHeader >>,
      << << >>, HEADER >> }

SheetInit ==
    /\ table \in Sheets
    /\ conv = [k \in ConvKeys |-> END]
    /\ running = EmptyBag
    /\ done = IdleTask
    /\ issued = {}
    /\ last = [k \in ConvKeys |-> NoReply]
    /\ links = {}
    /\ nupd = 0

\* the bot on a sheet it did not start itself, updates handled one after
\* the other
SheetSpec == SheetInit /\ [][SeqNext]_vars

(* ------------------------- notions of the claims ----------------------- *)

\* the data rows of tbl that carry uid in the telegram_user_id column
\* (column 2 of HEADER)
IdRows(tbl, uid) ==
    { i \in DataRows(tbl) : Cell(tbl[i], 2) = Str(uid) }

\* every handle_email coroutine the state knows: those in flight and the
\* one that finished last
Coroutines == Running \cup { done }

\* the latest coroutine: with one update handled at a time it is the one in
\* flight, or the one that finished last when none is in flight
Latest == IF Quiet THEN { done } ELSE Running

\* the coroutine has finished, by a return or by an exception
Finished(co) == co.pc \in { "returned", "raised" }

\* the coroutine is an admission attempt: the email it received was valid
Attempt(co) == co.email # ""

\* the links issued to uid
IssuedTo(uid) == { e \in issued : e.uid = uid }

\* the email every valid text of Texts holds once stripped
ValidEmail == "a@b.io"

(* -------------------------------- C1 ----------------------------------- *)

\* C1: without interleaved admissions and from an empty table, an
\* admission attempt of a user who already has a row ends with the
\* rejection reply, requests no invite, appends no row and returns END.
C1_SecondAttemptRejected ==
    (Finished(done) /\ Attempt(done) /\ IdRows(done.before, done.key[1]) # {})
        => /\ done.pc = "returned"
           /\ done.reply = Reply("rejected", "")
           /\ done.ret = END
           /\ done.reqs = 0
           /\ done.rows = 0

(* -------------------------------- C2 ----------------------------------- *)

RaceAppend(co) ==
    /\ HandleEmailInvited(co, "ok", FALSE)
    /\ table' = Append(table, table'[Len(table')])
    /\ Cell(table'[Len(table')], 2) = Str(co.key[1])

InviteFailed(co) ==
    co.pc \in { "await_reply", "returned" } /\ co.reply.kind = "diag"

\* C4 as stated: after an attempt whose invite failed the table is the same
\* as before the attempt.
C4_TableSameAfterFailedInvite ==
    \A co \in Latest : InviteFailed(co) => table = co.before

\* C4 as amended: an attempt whose invite failed appends no data row, makes
\* one invite request only, replies with the diagnostic and returns END;
\* with no other attempt interleaved the table after it is the table before
\* it, but for the header row that opening the store writes when the first
\* row is empty.
C4_FailedInviteAppendsNoDataRow ==
    \A co \in Latest :
        InviteFailed(co) =>
            /\ co.rows = 0
            /\ co.reqs = 1
            /\ co.link = ""
            /\ co.reply.arg \in ErrKinds
            /\ co.ret = END
            /\ \/ table = co.before
               \/ /\ row_values(co.before, 1) = << >>
                  /\ table = Append(co.before, HEADER)

C4_FailedInviteOnEmptySheet ==
    /\ Quiet
    /\ InviteFailed(done)
    /\ done.before = << >>
    /\ table = << HEADER >>
    /\ issued = {}
    /\ conv[done.key] = END
    /\ last[done.key] = done.reply

(* -------------------------------- C5 ----------------------------------- *)

\* C5: every data row was appended after a successful invite issuance and
\* carries a link Telegram issued for that row's user id; the first row is
\* the header.
C5_RowsCarryIssuedLink ==
    /\ table # << >> => table[1] = HEADER
    /\ \A i \in DataRows(table) :
           \E e \in issued :
               /\ Cell(table[i], 2) = Str(e.uid)
               /\ Cell(table[i], 6) = e.link
               /\ e.link # ""

C5_TwoRows ==
    /\ Len(table) = 3
    /\ Cell(table[2], 6) # Cell(table[3], 6)

(* -------------------------------- C6 ----------------------------------- *)

\* C6: no error of an external dependency leaves the handler: every
\* coroutine that has finished has returned.
C6_NoErrorLeavesHandler == done.pc # "raised"

(* -------------------------------- C7 ----------------------------------- *)

\* a step in which a handle_email coroutine finishes: one in flight leaves
\* the bag, or a new one finishes before its first await
Finishes ==
    \/ BagCardinality(running') < BagCardinality(running)
    \/ running' = running /\ nupd' # nupd /\ done' # done

\* C7: when the handler of a valid email finishes, whatever the outcome of
\* the admission procedure, the conversation is in END.
C7_ValidEmailEndsConversation ==
    [][ (Finishes /\ Attempt(done')) => conv'[done'.key] = END ]_vars

(* -------------------------------- C8 ----------------------------------- *)

\* the texts of Texts that do not match the email pattern once stripped:
\* no "@", no final label, a final label of one letter, an empty domain,
\* an empty local part, a space inside, a digit in the final label
InvalidTexts ==
    { << "n", "o", "t" >>,
      << "a", "@", "b" >>,
      << "a", "@", "b", ".", "c" >>,
      << "a", "@", ".", "i", "o" >>,
      << "@", "b", ".", "i", "o" >>,
      << "a", " ", "@", "b", ".", "i", "o" >>,
      << "a", "@", "b", ".", "i", "0" >> }

\* handle_email has begun for one more text of the chat of k, and stands at
\* the corrective reply
CorrectiveReplyPending(k) ==
    \E co \in BagToSet(running') :
        /\ co.key = k
        /\ co.pc = "await_reply"
        /\ co.reply = Reply("invalid", "")
        /\ co.ret = ASK_EMAIL
        /\ co.reqs = 0 /\ co.rows = 0
        /\ CopiesIn(co, running') = CopiesIn(co, running) + 1

\* C8: a text that does not match the email pattern, received in ASK_EMAIL,
\* gets the corrective reply and leaves the conversation in ASK_EMAIL, each
\* time again; the sheet is neither opened nor changed and no invite is
\* requested.
C8_InvalidEmailStaysInAskEmail ==
    [][ /\ \A k \in ConvKeys :
              (/\ nupd' # nupd
               /\ conv[k] = ASK_EMAIL
               /\ \E text \in InvalidTexts : \E fault \in OpenFaults :
                      HandleEmailBegin(k, text, fault))
                  => /\ table' = table
                     /\ issued' = issued
                     /\ conv'[k] = ASK_EMAIL
                     /\ CorrectiveReplyPending(k)
        /\ \A co \in Running :
              (co.reply.kind = "invalid" /\ HandleEmailReturn(co))
                  => /\ conv'[co.key] = ASK_EMAIL
                     /\ last'[co.key] = Reply("invalid", "")
                     /\ table' = table
                     /\ issued' = issued ]_vars

\* after an invalid text was answered, the next invalid text of the same
\* chat is being answered and the conversation is still in ASK_EMAIL
C8_TwoInvalidAttempts ==
    /\ done.pc = "returned" /\ done.reply.kind = "invalid"
    /\ last[done.key] = Reply("invalid", "")
    /\ conv[done.key] = ASK_EMAIL
    /\ \E co \in Running : co.key = done.key /\ co.reply.kind = "invalid"
    /\ nupd = 3
    /\ table = << >>
    /\ issued = {}

(* -------------------------------- C9 ----------------------------------- *)

\* what read_column("telegram_user_id") gives: the cells under the header
\* cell with that label
IdColumnRead(tbl) ==
    LET c == CHOOSE c \in 1..Len(tbl[1]) : tbl[1][c] = ID_LABEL
    IN  [i \in 1..(Len(tbl) - 1) |-> Cell(tbl[i + 1], c)]

Occurrences(cells, x) == Cardinality({ i \in 1..Len(cells) : cells[i] = x })

\* the coroutine of a user was resumed with an issued invite, appended and
\* stands at the reply that carries link
Admitted(co, link) ==
    \E new \in BagToSet(running') :
        /\ new.key = co.key /\ new.email = co.email /\ new.before = co.before
        /\ new.pc = "await_reply"
        /\ new.rows = 1
        /\ new.reply = Reply("link", link)
        /\ new.ret = END

\* C9: an admission that succeeds for a user whose id is not in the table
\* when the row is appended appends exactly one row, with the user's id,
\* the submitted email and the non-empty issued link; the reply carries the
\* same link; the telegram_user_id column then holds the id exactly once.
C9_SuccessAppendsOneRow ==
    [][ \A co \in Running :
            (co.pc = "await_invite" /\ table' # table
                /\ IdRows(table, co.key[1]) = {}
                /\ HandleEmailInvited(co, "ok", FALSE))
                => LET row == table'[Len(table')]
                   IN  /\ table' = Append(table, row)
                       /\ Len(row) = Len(HEADER)
                       /\ row[2] = Str(co.key[1])
                       /\ row[5] = ValidEmail
                       /\ row[6] # ""
                       /\ [uid |-> co.key[1], link |-> row[6]] \in issued'
                       /\ Admitted(co, row[6])
                       /\ Occurrences(IdColumnRead(table'), Str(co.key[1])) = 1
      ]_vars

C9_AdmittedAndReplied ==
    /\ done.pc = "returned" /\ done.rows = 1
    /\ IdRows(done.before, done.key[1]) = {}
    /\ Cardinality(IdRows(table, done.key[1])) = 1
    /\ last[done.key] = Reply("link", done.link)
    /\ \E i \in DataRows(table) :
           table[i][5] = ValidEmail /\ table[i][6] = done.link

(* -------------------------------- C10 ---------------------------------- *)

\* C10: the steps run in the order open, dedup check, invite, append,
\* reply, each only after the one before succeeded: an attempt that
\* requested an invite had opened the store and passed the check, a row
\* is appended only with the link of the attempt's issued invite, the
\* link is replied only after the row was appended, and every user who
\* was sent a link has a row with that link.
C10_StepsInOrder ==
    /\ \A co \in Coroutines :
           /\ co.reqs = 1 =>
                  /\ table # << >>
                  /\ Attempt(co)
                  /\ IdRows(co.before, co.key[1]) = {}
           /\ co.link # "" =>
                  /\ co.reqs = 1
                  /\ [uid |-> co.key[1], link |-> co.link] \in issued
           /\ co.rows = 1 =>
                  /\ co.link # ""
                  /\ \E i \in IdRows(table, co.key[1]) : table[i][6] = co.link
           /\ co.reply.kind = "link" =>
                  /\ co.rows = 1
                  /\ co.reply.arg = co.link
    /\ \A r \in links :
           \E i \in IdRows(table, r.uid) : table[i][6] = r.link
    /\ \A k \in ConvKeys :
           last[k].kind = "link" => [uid |-> k[1], link |-> last[k].arg] \in links

\* one user was sent a link; the invite of another attempt was issued but
\* its append raised, and no link was sent for it
C10_LinkSentOnlyWithRow ==
    /\ done.pc = "raised" /\ done.link # ""
    /\ \A r \in links : r.link # done.link
    /\ \E r \in links : r.uid # done.key[1]

(* -------------------------------- C11 ---------------------------------- *)

\* C11: a /start in a chat that is not private gets the redirect reply and
\* leaves the conversation in END, the sheet, the invites and the handlers
\* in flight untouched; no conversation of such a chat is ever in
\* ASK_EMAIL, and the only step that takes a conversation into ASK_EMAIL
\* is a /start in a private chat, answered with the prompt.
C11_OnlyPrivateStartEntersAskEmail ==
    [][ \A k \in ConvKeys :
            /\ (k[2] # "private" /\ nupd' # nupd /\ start(k))
                   => /\ last'[k] = Reply("redirect", "")
                      /\ conv'[k] = END
                      /\ table' = table
                      /\ issued' = issued
                      /\ running' = running
            /\ k[2] # "private" => conv'[k] = END
            /\ (conv[k] # ASK_EMAIL /\ conv'[k] = ASK_EMAIL)
                   => /\ k[2] = "private"
                      /\ start(k)
                      /\ last'[k] = Reply("prompt", "")
      ]_vars

\* a user was redirected in a group chat and prompted in the private one
C11_RedirectedInGroupPromptedInPrivate ==
    \E uid \in UserIds :
        /\ last[<< uid, "group" >>] = Reply("redirect", "")
        /\ conv[<< uid, "group" >>] = END
        /\ last[<< uid, "private" >>] = Reply("prompt", "")
        /\ conv[<< uid, "private" >>] = ASK_EMAIL
        /\ table = << >>
        /\ issued = {}

(* -------------------------------- C12 ---------------------------------- *)

\* C12: in ASK_EMAIL a /cancel is always accepted, whatever the sheet, the
\* invites and the handlers in flight are; handling it replies the
\* confirmation, puts the conversation in END and changes neither the
\* sheet nor the invites issued nor the handlers in flight.
C12_CancelEndsConversation ==
    [][ \A k \in ConvKeys :
            /\ (conv[k] = ASK_EMAIL /\ nupd < MaxUpdates) => ENABLED cancel(k)
            /\ (conv[k] = ASK_EMAIL /\ nupd' # nupd /\ cancel(k))
                   => /\ conv'[k] = END
                      /\ last'[k] = Reply("cancelled", "")
                      /\ table' = table
                      /\ issued' = issued
                      /\ running' = running
                      /\ done' = done
      ]_vars

\* a conversation that went through a corrective reply was cancelled
C12_CancelledAfterInvalidEmail ==
    /\ done.pc = "returned" /\ done.reply.kind = "invalid"
    /\ conv[done.key] = END
    /\ last[done.key] = Reply("cancelled", "")
    /\ Quiet

(* -------------------------------- C13 ---------------------------------- *)

\* the rows of tbl that hold the header
HeaderRows(tbl) == { i \in 1..Len(tbl) : tbl[i] = HEADER }

\* C13: opening the store is idempotent: when the first row is empty the
\* header is written as the first row, opening again adds nothing, and the
\* sheet never holds two header rows.
C13_OpeningIsIdempotent ==
    /\ row_values(table, 1) = << >> => get_ws(table)[1] = HEADER
    /\ get_ws(get_ws(table)) = get_ws(table)
    /\ Cardinality(HeaderRows(table)) <= 1

(* -------------------------------- C14 ---------------------------------- *)

\* a coroutine of the conversation k finishes its last reply and returns
ReturnsIn(k) == \E co \in Running : co.key = k /\ HandleEmailReturn(co)

\* C14: the conversations do not interfere: a step changes the state of
\* one conversation at most, and it is a step of that conversation (its
\* /start, its /cancel or the return of its handle_email); a reply is
\* delivered in the chat of the step only; an attempt is rejected as a
\* duplicate only when the sheet it found held a row with its own user's
\* id, whatever rows of other users it held.
C14_ConversationsDoNotInterfere ==
    [][ /\ \A k \in ConvKeys :
               /\ conv'[k] # conv[k] => (start(k) \/ cancel(k) \/ ReturnsIn(k))
               /\ last'[k] # last[k] => (start(k) \/ cancel(k) \/ ReturnsIn(k))
        /\ \A k \in ConvKeys : \A j \in ConvKeys :
               (conv'[k] # conv[k] /\ j # k) => conv'[j] = conv[j]
        /\ \A co \in BagToSet(running') \cup { done' } :
               co.reply.kind = "rejected"
                   => /\ IdRows(co.before, co.key[1]) # {}
                      /\ IdRows(table', co.key[1]) # {}
      ]_vars

\* a user passed the dedup check on a sheet that held the row of another
\* user, and was admitted; the other user's conversation is as it ended
C14_AdmittedBesideAnotherUser ==
    \E co \in Coroutines : \E uid \in UserIds :
        /\ uid # co.key[1]
        /\ co.rows = 1
        /\ IdRows(co.before, uid) # {}
        /\ IdRows(co.before, co.key[1]) = {}
        /\ conv[<< uid, "private" >>] = END
        /\ last[<< uid, "private" >>].kind = "link"

(* -------------------------------- C15 ---------------------------------- *)

\* the texts of Texts that match the email pattern once stripped
ValidTexts == Texts \ InvalidTexts

\* the attempt that finished last was one of k and failed at the invite
FailedInviteBefore(k) ==
    done.key = k /\ done.pc = "returned" /\ InviteFailed(done)

\* C15: an attempt that failed at the invite leaves the user unrecorded;
\* when the user, after a new /start, sends a valid email, the attempt
\* passes the dedup check and requests an invite, and when that invite is
\* issued the user is admitted and has exactly one row.
C15_RetryAfterFailedInviteAdmits ==
    [][ /\ (InviteFailed(done') /\ done' # done)
               => /\ ~user_already_submitted(table', done'.key[1])
                  /\ IdRows(table', done'.key[1]) = {}
        /\ \A k \in ConvKeys :
               (/\ FailedInviteBefore(k)
                /\ conv[k] = ASK_EMAIL
                /\ nupd' # nupd
                /\ \E text \in ValidTexts : \E fault \in OpenFaults :
                       HandleEmailBegin(k, text, fault))
                   => \E co \in BagToSet(running') :
                          co.key = k /\ co.pc = "await_invite" /\ co.reqs = 1
        /\ \A co \in Running :
               (/\ co.pc = "await_invite"
                /\ FailedInviteBefore(co.key)
                /\ issued' # issued)
                   => /\ Admitted(co, NewLink)
                      /\ Cardinality(IdRows(table', co.key[1])) = 1
      ]_vars

(* -------------------------------- C16 ---------------------------------- *)

\* C16: the sheet is append-only: every step leaves its rows as they were
\* or adds one row below them.
C16_AppendOnly ==
    [][ \/ table' = table
        \/ /\ Len(table') = Len(table) + 1
           /\ SubSeq(table', 1, Len(table)) = table
      ]_vars

\* the header and the rows of two users, in the order they were appended
C16_HeaderThenTwoUsers ==
    /\ Len(table) = 3
    /\ table[1] = HEADER
    /\ IdRows(table, 7) = { 2 }
    /\ IdRows(table, 42) = { 3 }

(* -------------------------------- C17 ---------------------------------- *)

\* the conversation k was cancelled and nothing was replied in it since
Cancelled(k) == conv[k] = END /\ last[k] = Reply("cancelled", "")

C18_TextOutsideAskEmailIgnored ==
    [][ /\ \A k \in ConvKeys :
               conv[k] # ASK_EMAIL =>
                   /\ \A text \in Texts : \A fault \in OpenFaults :
                          ~ENABLED HandleEmailBegin(k, text, fault)
                   /\ nupd < MaxUpdates => ENABLED Unhandled(k, "text")
                   /\ (nupd' # nupd /\ Unhandled(k, "text"))
                          => /\ last' = last
                             /\ links' = links
                             /\ conv' = conv
                             /\ table' = table
                             /\ issued' = issued
                             /\ running' = running
                             /\ done' = done
        /\ (nupd' # nupd /\ << running', done' >> # << running, done >>)
               => \E k \in ConvKeys :
                      /\ conv[k] = ASK_EMAIL
                      /\ \E text \in Texts : \E fault \in OpenFaults :
                             HandleEmailBegin(k, text, fault)
      ]_vars

\* one update came before any /start and no handler took it
C18_UpdateBeforeStartIgnored ==
    /\ nupd = 1
    /\ conv = [k \in ConvKeys |-> END]
    /\ last = [k \in ConvKeys |-> NoReply]
    /\ table = << >>
    /\ issued = {}
    /\ Quiet
    /\ done = IdleTask

(* -------------------------------- C19 ---------------------------------- *)

\* the column of the first row that holds the label of the id column, 0
\* when none does
LabelColumn(tbl) ==
    LET first == row_values(tbl, 1)
        cs == { c \in 1..Len(first) : first[c] = ID_LABEL }
    IN  IF cs = {} THEN 0 ELSE CHOOSE c \in cs : \A d \in cs : c <= d

\* C19: the dedup check reads the column labelled telegram_user_id when
\* the first row holds the label and column 2 otherwise, from the second
\* row on; whatever the first row holds, a user whose row append_submission
\* appended is found by the check.
C19_AppendedUserIsFound ==
    /\ DedupColumn(table) = IF LabelColumn(table) # 0 THEN LabelColumn(table) ELSE 2
    /\ \A uid \in UserIds :
           user_already_submitted(table, uid)
               <=> \E i \in 2..Len(table) :
                       Cell(table[i], DedupColumn(table)) = Str(uid)
    /\ \A co \in Coroutines :
           co.rows = 1 => user_already_submitted(table, co.key[1])

(* -------------------------------- C20 ---------------------------------- *)

\* the invite was issued and no row carries its link: the append that
\* follows the issuance raised
AppendFailedFor(e) ==
    \A i \in DataRows(table) : Cell(table[i], 6) # e.link

\* C20: with the updates handled one after the other, a user is issued a
\* second invite only when the append after an earlier issuance failed:
\* as long as every issued invite has its row, every user has one invite
\* at most.
C20_SecondInviteOnlyAfterFailedAppend ==
    \A uid \in UserIds :
        Cardinality(IssuedTo(uid)) >= 2
            => \E e \in IssuedTo(uid) : AppendFailedFor(e)

====
